---- MODULE Spec2Model ----
(***************************************************************************)
(* lineman: a directory-tree trailing-whitespace / end-of-file newline     *)
(* normalizer (src/src/main.rs).                                           *)
(*                                                                         *)
(* A text is a sequence of characters, each a one-character string.  Two   *)
(* specifications are given:                                               *)
(*   SpecLines  split_inclusive + clean_lines applied to every text of a   *)
(*              bounded length, then applied again to their own output;    *)
(*   Spec       a run of main: the root check, the lazy directory walk,    *)
(*              the extension filter, clean_file with each of its file     *)
(*              system operations as one step, and the report.             *)
(***************************************************************************)
EXTENDS Integers, Sequences, FiniteSets, TLC

VARIABLES
    pc,                      \* position of main / of the line-normalizer harness
    root_is_dir,             \* root_path.is_dir()
    extensions,              \* args.extensions : Option<Vec<String>>
    normalize_eof_newlines,  \* !args.disable_eof_newline_normalization
    n,                       \* entries yielded by the walk so far; the current path
    entry,                   \* the entry being handled: kind and extension
    results,                 \* results[p]: what main did with entry p
    cleaned_file_paths,      \* Vec<PathBuf>
    skipped_file_paths,      \* Vec<PathBuf>
    walk_dir_errors,         \* Vec<Error>
    file_before,             \* content of the current file when clean_file was called
    file_now,                \* content of the current file on disk now
    lines,                   \* clean_file: the inclusive split of the text read
    cleaned_lines,           \* clean_lines: the cleaned lines
    file_was_cleaned,        \* clean_lines: the changed flag
    k,                       \* clean_file: index of the next cleaned line to write
    partial,                 \* bytes of line k a failed write_all had already written
    touched,                 \* the current file was created, truncated or written
    ret,                     \* value returned by the last clean_file call
    fs_used,                 \* some file has been read or written in this run
    second                   \* clean_lines applied to the cleaned lines again

vars == <<pc, root_is_dir, extensions, normalize_eof_newlines, n, entry, results,
          cleaned_file_paths, skipped_file_paths, walk_dir_errors, file_before,
          file_now, lines, cleaned_lines, file_was_cleaned, k, partial, touched,
          ret, fs_used, second>>

(***************************************************************************)
(* Bounds.                                                                 *)
(***************************************************************************)
MaxTextLen == 5      \* longest text given to the normalizer in SpecLines
MaxFileLen == 2      \* longest file content in a run
MaxEntries == 3      \* most entries one walk yields

(* The characters texts are made of: one non-whitespace character and four *)
(* characters with the Unicode White_Space property.                       *)
Alphabet == {"a", " ", "\t", "\r", "\n"}

Texts(len) == UNION {[1..m -> Alphabet] : m \in 0..len}

(***************************************************************************)
(* The line normalizer.                                                    *)
(***************************************************************************)

\* char::is_whitespace, as str::trim_end uses it
is_whitespace_no_tab(c) == c \in {" ", "\r", "\n"}
is_whitespace(c) == c \in {" ", "\t", "\r", "\n"}

\* str::trim_end: the text without its trailing whitespace characters
RECURSIVE trim_end_keeps_newline(_)
trim_end_keeps_newline(s) ==
    IF Len(s) = 0 THEN s
    ELSE IF is_whitespace(s[Len(s)]) /\ s[Len(s)] # "\n"
         THEN trim_end_keeps_newline(SubSeq(s, 1, Len(s) - 1))
         ELSE s

RECURSIVE trim_end(_)
trim_end(s) ==
    IF Len(s) = 0 THEN s
    ELSE IF is_whitespace(s[Len(s)])
         THEN trim_end(SubSeq(s, 1, Len(s) - 1))
         ELSE s

\* str::ends_with('\n')
ends_with_newline(s) == Len(s) > 0 /\ s[Len(s)] = "\n"

\* index of the first '\n' of a text, 0 if it has none
FirstNewline(t) ==
    IF \E i \in 1..Len(t) : t[i] = "\n"
    THEN CHOOSE i \in 1..Len(t) : t[i] = "\n" /\ \A j \in 1..(i - 1) : t[j] # "\n"
    ELSE 0

\* str::split_inclusive('\n'): every piece keeps its terminator; no empty piece
RECURSIVE split_inclusive(_)
split_inclusive(t) ==
    IF Len(t) = 0 THEN <<>>
    ELSE LET i == FirstNewline(t) IN
         IF i = 0 THEN <<t>>
         ELSE <<SubSeq(t, 1, i)>> \o split_inclusive(SubSeq(t, i + 1, Len(t)))

\* the closure of clean_lines' map: one line cleaned
clean_line_always_newline(line, normalize) == Append(trim_end(line), "\n")
clean_line(line, normalize) ==
    LET line_has_newline == ends_with_newline(line)
        trimmed_line == trim_end(line)
    IN  IF normalize \/ line_has_newline
        THEN Append(trimmed_line, "\n")
        ELSE trimmed_line

\* a variant that leaves one blank line at the end
skip_while_blank_keep_one(ls, normalize) ==
    LET blank(i) == normalize /\ Len(trim_end(ls[i])) = 0
        kept == {i \in 1..Len(ls) : ~blank(i)}
        last == IF kept = {} THEN 0 ELSE CHOOSE i \in kept : \A j \in kept : j <= i
    IN  IF last < Len(ls) THEN SubSeq(ls, 1, last + 1) ELSE ls

\* .rev().skip_while(..).collect() followed by reverse(): the blank lines at
\* the end are dropped when normalize is set
RECURSIVE skip_while_blank(_, _)
skip_while_blank(ls, normalize) ==
    IF Len(ls) = 0 THEN ls
    ELSE IF normalize /\ Len(trim_end(ls[Len(ls)])) = 0
         THEN skip_while_blank(SubSeq(ls, 1, Len(ls) - 1), normalize)
         ELSE ls

\* clean_lines: the cleaned lines and whether they differ from the input
clean_lines_changed_by_length(ls, normalize) ==
    LET mapped == [i \in 1..Len(ls) |-> clean_line(ls[i], normalize)]
        cleaned == skip_while_blank(mapped, normalize)
    IN  [cleaned |-> cleaned, changed |-> Len(ls) # Len(cleaned)]
clean_lines(ls, normalize) ==
    LET mapped == [i \in 1..Len(ls) |-> clean_line(ls[i], normalize)]
        cleaned == skip_while_blank(mapped, normalize)
    IN  [cleaned |-> cleaned, changed |-> ls # cleaned]

\* the bytes a sequence of lines makes when written one after the other
RECURSIVE Concat(_)
Concat(ls) == IF Len(ls) = 0 THEN <<>> ELSE Head(ls) \o Concat(Tail(ls))

(***************************************************************************)
(* Values the variables hold while they are not in use.                    *)
(***************************************************************************)
NoEntry == [kind |-> "none", has_ext |-> FALSE, ext |-> ""]
NoResult == [cleaned |-> <<>>, changed |-> FALSE]

FileIdle ==
    /\ file_before = <<>> /\ file_now = <<>> /\ lines = <<>>
    /\ cleaned_lines = <<>> /\ file_was_cleaned = FALSE
    /\ k = 0 /\ partial = 0 /\ touched = FALSE /\ ret = "none"

(***************************************************************************)
(* SpecLines: the normalizer on every text of at most MaxTextLen           *)
(* characters, with either flag value.                                     *)
(***************************************************************************)
InitLines ==
    /\ pc = "input"
    /\ file_before \in Texts(MaxTextLen)
    /\ normalize_eof_newlines \in BOOLEAN
    /\ root_is_dir = TRUE /\ extensions = [some |-> FALSE, list |-> {}]
    /\ n = 0 /\ entry = NoEntry /\ results = <<>>
    /\ cleaned_file_paths = <<>> /\ skipped_file_paths = <<>>
    /\ walk_dir_errors = <<>>
    /\ file_now = file_before /\ lines = <<>> /\ cleaned_lines = <<>>
    /\ file_was_cleaned = FALSE /\ k = 0 /\ partial = 0 /\ touched = FALSE
    /\ ret = "none" /\ fs_used = FALSE /\ second = NoResult

\* clean_file's first half: the text is split and the lines are cleaned
SplitAndClean ==
    /\ pc = "input"
    /\ LET ls == split_inclusive(file_before)
           r == clean_lines(ls, normalize_eof_newlines)
       IN  /\ lines' = ls
           /\ cleaned_lines' = r.cleaned
           /\ file_was_cleaned' = r.changed
    /\ pc' = "cleaned"
    /\ UNCHANGED <<root_is_dir, extensions, normalize_eof_newlines, n, entry,
                   results, cleaned_file_paths, skipped_file_paths,
                   walk_dir_errors, file_before, file_now, k, partial, touched,
                   ret, fs_used, second>>

\* a second run over the text the first run produced
CleanAgain ==
    /\ pc = "cleaned"
    /\ second' = clean_lines(cleaned_lines, normalize_eof_newlines)
    /\ pc' = "recleaned"
    /\ UNCHANGED <<root_is_dir, extensions, normalize_eof_newlines, n, entry,
                   results, cleaned_file_paths, skipped_file_paths,
                   walk_dir_errors, file_before, file_now, lines, cleaned_lines,
                   file_was_cleaned, k, partial, touched, ret, fs_used>>

NextLines == SplitAndClean \/ CleanAgain

SpecLines == InitLines /\ [][NextLines]_vars

(***************************************************************************)
(* Spec: a run of main.                                                    *)
(*                                                                         *)
(* The walk is lazy: each step of the loop draws the next entry.  A path   *)
(* is the position of its entry in the walk, so no two entries share one.  *)
(* The content of a file is drawn when clean_file reads it.                *)
(***************************************************************************)

\* the values of --extensions: absent, or a list
ExtensionLists ==
    { [some |-> FALSE, list |-> {}],
      [some |-> TRUE, list |-> {"rs"}] }

\* Path::extension() of a regular file: None, or Some of a string
FileExtensions ==
    { [kind |-> "file", has_ext |-> FALSE, ext |-> ""],
      [kind |-> "file", has_ext |-> TRUE, ext |-> "rs"],
      [kind |-> "file", has_ext |-> TRUE, ext |-> "md"] }

Init ==
    /\ pc = "start"
    /\ root_is_dir \in BOOLEAN
    /\ extensions \in ExtensionLists
    /\ normalize_eof_newlines \in BOOLEAN
    /\ n = 0 /\ entry = NoEntry /\ results = <<>>
    /\ cleaned_file_paths = <<>> /\ skipped_file_paths = <<>>
    /\ walk_dir_errors = <<>>
    /\ FileIdle
    /\ fs_used = FALSE /\ second = NoResult

\* the per-file variables as they are when the next entry is drawn
ResetFile ==
    /\ file_before' = <<>> /\ file_now' = <<>> /\ lines' = <<>>
    /\ cleaned_lines' = <<>> /\ file_was_cleaned' = FALSE
    /\ k' = 0 /\ partial' = 0 /\ touched' = FALSE /\ ret' = "none"

\* the extension test of main: a file is cleaned only if it has an extension
\* and, when a list is given, the list holds that extension
should_clean_file(e) ==
    /\ e.has_ext
    /\ IF extensions.some THEN e.ext \in extensions.list ELSE TRUE

\* the root check: the only way main returns an error
CheckRoot ==
    /\ pc = "start"
    /\ pc' = IF root_is_dir THEN "walk" ELSE "aborted"
    /\ UNCHANGED <<root_is_dir, extensions, normalize_eof_newlines, n, entry,
                   results, cleaned_file_paths, skipped_file_paths,
                   walk_dir_errors, file_before, file_now, lines, cleaned_lines,
                   file_was_cleaned, k, partial, touched, ret, fs_used, second>>

\* the walk yields Err: the error is collected and the loop goes on
WalkErrorAborts ==
    /\ pc = "walk" /\ n < MaxEntries
    /\ n' = n + 1
    /\ entry' = [kind |-> "error", has_ext |-> FALSE, ext |-> ""]
    /\ walk_dir_errors' = Append(walk_dir_errors, n + 1)
    /\ results' = Append(results, "WalkError")
    /\ pc' = "aborted"
    /\ ResetFile
    /\ UNCHANGED <<root_is_dir, extensions, normalize_eof_newlines,
                   cleaned_file_paths, skipped_file_paths, fs_used, second>>
WalkError ==
    /\ pc = "walk" /\ n < MaxEntries
    /\ n' = n + 1
    /\ entry' = [kind |-> "error", has_ext |-> FALSE, ext |-> ""]
    /\ walk_dir_errors' = Append(walk_dir_errors, n + 1)
    /\ results' = Append(results, "WalkError")
    /\ pc' = "walk"
    /\ ResetFile
    /\ UNCHANGED <<root_is_dir, extensions, normalize_eof_newlines,
                   cleaned_file_paths, skipped_file_paths, fs_used, second>>

\* the walk yields an entry that is not a regular file: continue
WalkNotFile ==
    /\ pc = "walk" /\ n < MaxEntries
    /\ n' = n + 1
    /\ entry' = [kind |-> "dir", has_ext |-> FALSE, ext |-> ""]
    /\ results' = Append(results, "NotFile")
    /\ pc' = "walk"
    /\ ResetFile
    /\ UNCHANGED <<root_is_dir, extensions, normalize_eof_newlines,
                   cleaned_file_paths, skipped_file_paths, walk_dir_errors,
                   fs_used, second>>

\* the walk yields a regular file: it is passed to clean_file or left alone
WalkFile ==
    /\ pc = "walk" /\ n < MaxEntries
    /\ \E e \in FileExtensions :
        /\ entry' = e
        /\ IF should_clean_file(e)
           THEN pc' = "read" /\ results' = results
           ELSE pc' = "walk" /\ results' = Append(results, "NotPassed")
    /\ n' = n + 1
    /\ ResetFile
    /\ UNCHANGED <<root_is_dir, extensions, normalize_eof_newlines,
                   cleaned_file_paths, skipped_file_paths, walk_dir_errors,
                   fs_used, second>>

\* a variant that lists every file clean_file returned Ok for
ReturnListsEveryOk(r) ==
    /\ ret' = r
    /\ results' = Append(results, r)
    /\ cleaned_file_paths' =
          IF r \in {"OkTrue", "OkFalse"} THEN Append(cleaned_file_paths, n)
          ELSE cleaned_file_paths
    /\ skipped_file_paths' =
          IF r \in {"FileNotOpened", "FileNotCleaned"}
          THEN Append(skipped_file_paths, n)
          ELSE skipped_file_paths
    /\ pc' = "walk"

\* clean_file returns r and main files the path under it
Return(r) ==
    /\ ret' = r
    /\ results' = Append(results, r)
    /\ cleaned_file_paths' =
          IF r = "OkTrue" THEN Append(cleaned_file_paths, n)
          ELSE cleaned_file_paths
    /\ skipped_file_paths' =
          IF r \in {"FileNotOpened", "FileNotCleaned"}
          THEN Append(skipped_file_paths, n)
          ELSE skipped_file_paths
    /\ pc' = "walk"

\* fs::read_to_string fails: the file is neither opened nor decoded
ReadFail ==
    /\ pc = "read"
    /\ \E t \in Texts(MaxFileLen) : file_before' = t /\ file_now' = t
    /\ fs_used' = TRUE
    /\ Return("FileNotOpened")
    /\ UNCHANGED <<root_is_dir, extensions, normalize_eof_newlines, n, entry,
                   walk_dir_errors, lines, cleaned_lines, file_was_cleaned, k,
                   partial, touched, second>>

\* fs::read_to_string succeeds; the text is split and cleaned; an unchanged
\* file is returned at once
ReadOkAlwaysRewrites ==
    /\ pc = "read"
    /\ \E t \in Texts(MaxFileLen) :
        LET ls == split_inclusive(t)
            r == clean_lines(ls, normalize_eof_newlines)
        IN  /\ file_before' = t /\ file_now' = t
            /\ lines' = ls
            /\ cleaned_lines' = r.cleaned
            /\ file_was_cleaned' = r.changed
            /\ pc' = "create"
            /\ UNCHANGED <<ret, results, cleaned_file_paths,
                             skipped_file_paths>>
    /\ fs_used' = TRUE
    /\ UNCHANGED <<root_is_dir, extensions, normalize_eof_newlines, n, entry,
                   walk_dir_errors, k, partial, touched, second>>
ReadOk ==
    /\ pc = "read"
    /\ \E t \in Texts(MaxFileLen) :
        LET ls == split_inclusive(t)
            r == clean_lines(ls, normalize_eof_newlines)
        IN  /\ file_before' = t /\ file_now' = t
            /\ lines' = ls
            /\ cleaned_lines' = r.cleaned
            /\ file_was_cleaned' = r.changed
            /\ IF r.changed
               THEN /\ pc' = "create"
                    /\ UNCHANGED <<ret, results, cleaned_file_paths,
                                   skipped_file_paths>>
               ELSE Return("OkFalse")
    /\ fs_used' = TRUE
    /\ UNCHANGED <<root_is_dir, extensions, normalize_eof_newlines, n, entry,
                   walk_dir_errors, k, partial, touched, second>>

\* File::create fails: nothing is truncated
CreateFailTruncates ==
    /\ pc = "create"
    /\ file_now' = <<>>
    /\ Return("FileNotCleaned")
    /\ UNCHANGED <<root_is_dir, extensions, normalize_eof_newlines, n, entry,
                   walk_dir_errors, file_before, lines, cleaned_lines,
                   file_was_cleaned, k, partial, touched, fs_used, second>>
CreateFail ==
    /\ pc = "create"
    /\ Return("FileNotCleaned")
    /\ UNCHANGED <<root_is_dir, extensions, normalize_eof_newlines, n, entry,
                   walk_dir_errors, file_before, file_now, lines, cleaned_lines,
                   file_was_cleaned, k, partial, touched, fs_used, second>>

\* File::create succeeds: the file is empty now; with no line to write
\* clean_file returns Ok(true)
CreateOk ==
    /\ pc = "create"
    /\ file_now' = <<>>
    /\ touched' = TRUE
    /\ IF Len(cleaned_lines) = 0
       THEN Return("OkTrue") /\ k' = k
       ELSE /\ pc' = "write" /\ k' = 1
            /\ UNCHANGED <<ret, results, cleaned_file_paths, skipped_file_paths>>
    /\ UNCHANGED <<root_is_dir, extensions, normalize_eof_newlines, n, entry,
                   walk_dir_errors, file_before, lines, cleaned_lines,
                   file_was_cleaned, partial, fs_used, second>>

\* write_all of line k succeeds; after the last line clean_file returns Ok(true)
WriteLine ==
    /\ pc = "write" /\ k <= Len(cleaned_lines)
    /\ file_now' = file_now \o cleaned_lines[k]
    /\ k' = k + 1
    /\ IF k = Len(cleaned_lines)
       THEN Return("OkTrue")
       ELSE /\ pc' = "write"
            /\ UNCHANGED <<ret, results, cleaned_file_paths, skipped_file_paths>>
    /\ UNCHANGED <<root_is_dir, extensions, normalize_eof_newlines, n, entry,
                   walk_dir_errors, file_before, lines, cleaned_lines,
                   file_was_cleaned, partial, touched, fs_used, second>>

\* write_all of line k fails: some write call returned an error while bytes
\* of the line were still to be written (write_all of an empty line makes no
\* write call and cannot fail)
WriteFail ==
    /\ pc = "write" /\ k <= Len(cleaned_lines)
    /\ Len(cleaned_lines[k]) > 0
    /\ \E j \in 0..(Len(cleaned_lines[k]) - 1) :
        /\ file_now' = file_now \o SubSeq(cleaned_lines[k], 1, j)
        /\ partial' = j
    /\ Return("FileNotCleaned")
    /\ UNCHANGED <<root_is_dir, extensions, normalize_eof_newlines, n, entry,
                   walk_dir_errors, file_before, lines, cleaned_lines,
                   file_was_cleaned, k, touched, fs_used, second>>

\* the walk is exhausted: print_report, and main returns Ok(())
Report ==
    /\ pc = "walk"
    /\ pc' = "reported"
    /\ UNCHANGED <<root_is_dir, extensions, normalize_eof_newlines, n, entry,
                   results, cleaned_file_paths, skipped_file_paths,
                   walk_dir_errors, file_before, file_now, lines, cleaned_lines,
                   file_was_cleaned, k, partial, touched, ret, fs_used, second>>

Next ==
    \/ CheckRoot
    \/ WalkError
    \/ WalkNotFile
    \/ WalkFile
    \/ ReadFail
    \/ ReadOk
    \/ CreateFail
    \/ CreateOk
    \/ WriteLine
    \/ WriteFail
    \/ Report

Spec == Init /\ [][Next]_vars

(***************************************************************************)
(* Properties.  The definitions below describe texts on their own terms    *)
(* and use none of the normalizer's operators.                             *)
(***************************************************************************)
WhitespaceChars == {" ", "\t", "\r", "\n"}

EndsNl(s) == Len(s) > 0 /\ s[Len(s)] = "\n"

\* a line without its terminator
Unterminated(s) == IF EndsNl(s) THEN SubSeq(s, 1, Len(s) - 1) ELSE s

\* position of the last character of s that is not whitespace, 0 if none
LastVisible(s) ==
    LET vis == {j \in 1..Len(s) : s[j] \notin WhitespaceChars}
    IN  IF vis = {} THEN 0 ELSE CHOOSE j \in vis : \A h \in vis : h <= j

\* s up to its last character that is not whitespace
Visible(s) == SubSeq(s, 1, LastVisible(s))

IsPrefix(p, s) == Len(p) <= Len(s) /\ SubSeq(s, 1, Len(p)) = p
StrictPrefix(p, s) == IsPrefix(p, s) /\ Len(p) < Len(s)

Range(q) == {q[i] : i \in 1..Len(q)}

Cleaned == pc \in {"cleaned", "recleaned"}

\* C2: the changed flag is true exactly when the bytes of the cleaned lines
\* differ from the bytes of the input lines; an unchanged result is the input
\* byte for byte, and the empty input gives the empty output, unchanged.
C2_ChangedIffBytesDiffer ==
    Cleaned =>
        /\ Concat(lines) = file_before
        /\ file_was_cleaned <=> (Concat(cleaned_lines) # Concat(lines))
        /\ ~file_was_cleaned => Concat(cleaned_lines) = file_before
        /\ lines = <<>> => (cleaned_lines = <<>> /\ ~file_was_cleaned)

C2_Witness ==
    /\ pc = "cleaned" /\ file_was_cleaned
    /\ Len(lines) = 2 /\ Len(cleaned_lines) = 2

\* C3: cleaning the output of a normalizing run again returns the same
\* lines, and reports no change.
C3_Idempotent ==
    (pc = "recleaned" /\ normalize_eof_newlines) =>
        /\ second.cleaned = cleaned_lines
        /\ second.changed = FALSE

C3_Witness ==
    /\ pc = "recleaned" /\ normalize_eof_newlines
    /\ file_was_cleaned /\ Len(cleaned_lines) = 2 /\ Len(lines) = 3

\* C4: every output line, its terminator aside, ends in no whitespace
\* character and is the input line of the same position with nothing but
\* whitespace taken off its end.
C4_TrailingWhitespaceRemoved ==
    Cleaned =>
        /\ Len(cleaned_lines) <= Len(lines)
        /\ \A i \in 1..Len(cleaned_lines) :
            LET body == Unterminated(cleaned_lines[i])
            IN  /\ Len(body) = 0 \/ body[Len(body)] \notin WhitespaceChars
                /\ IsPrefix(body, lines[i])
                /\ \A j \in (Len(body) + 1)..Len(lines[i]) :
                        lines[i][j] \in WhitespaceChars

C4_Witness ==
    /\ pc = "cleaned" /\ Len(cleaned_lines) = 2
    /\ lines[1] = <<" ", "a", "\t", "\n">>
    /\ cleaned_lines[1] = <<" ", "a", "\n">>

\* C5: with normalization on, the output is every input line's visible part
\* followed by one newline, cut after the last line that has a visible part;
\* a non-empty input of blank lines only gives the empty output, changed.
C5_NormalizedOutput ==
    (Cleaned /\ normalize_eof_newlines) =>
        LET full == {i \in 1..Len(lines) : LastVisible(lines[i]) > 0}
            last == IF full = {} THEN 0
                    ELSE CHOOSE i \in full : \A j \in full : j <= i
        IN  /\ cleaned_lines = [i \in 1..last |-> Append(Visible(lines[i]), "\n")]
            /\ (Len(lines) > 0 /\ full = {}) =>
                    (cleaned_lines = <<>> /\ file_was_cleaned)

C5_Witness ==
    /\ pc = "cleaned" /\ normalize_eof_newlines
    /\ Len(lines) = 4 /\ Len(cleaned_lines) = 3
    /\ cleaned_lines[2] = <<"\n">>
    /\ ~EndsNl(lines[4])

\* C6: with normalization off, the output has as many lines as the input, and
\* each output line ends with a newline exactly when its input line did.
C6_LinesAndNewlinesKept ==
    (Cleaned /\ ~normalize_eof_newlines) =>
        /\ Len(cleaned_lines) = Len(lines)
        /\ \A i \in 1..Len(lines) : EndsNl(cleaned_lines[i]) <=> EndsNl(lines[i])

C6_Witness ==
    /\ pc = "cleaned" /\ ~normalize_eof_newlines /\ file_was_cleaned
    /\ Len(lines) = 3
    /\ lines[2] = <<"\n">>
    /\ lines[3] = <<" ">>

Errors == {"FileNotOpened", "FileNotCleaned"}

\* C1: clean_file creates, truncates or writes the file only when the lines
\* changed; an unchanged file keeps its content and Ok(false) is returned;
\* a changed file written without error holds the cleaned lines and Ok(true)
\* is returned.
C1_WrittenIffChanged ==
    /\ touched => file_was_cleaned
    /\ ~file_was_cleaned => file_now = file_before
    /\ ret = "OkFalse" => (~file_was_cleaned /\ ~touched /\ file_now = file_before)
    /\ ret = "OkTrue" =>
          (file_was_cleaned /\ touched /\ file_now = Concat(cleaned_lines))
    /\ (pc = "walk" /\ file_was_cleaned /\ ret \notin Errors) => ret = "OkTrue"

C1_Witness ==
    /\ ret = "OkTrue" /\ Len(cleaned_lines) = 2
    /\ file_now # file_before

\* the current entry was passed to clean_file
Passed ==
    \/ pc \in {"read", "create", "write"}
    \/ Len(results) = n /\ n > 0 /\ results[n] \notin {"NotPassed", "NotFile", "WalkError"}

\* C7: with no extension list every regular file is passed to clean_file,
\* the files without extension too; with a list, exactly the files whose
\* extension is listed.
C7_EveryFileWithoutList ==
    entry.kind = "file" =>
        (Passed <=> IF extensions.some
                    THEN entry.has_ext /\ entry.ext \in extensions.list
                    ELSE TRUE)

\* C8: a read, write or walk error never ends the run: the failure is filed,
\* the loop is back at the walk, and the run can always go on until the
\* report; main aborts only on a root that is no directory, before any entry
\* is drawn and before any file is read or written.
C8_ErrorsNeverAbort ==
    /\ pc = "aborted" => (~root_is_dir /\ n = 0 /\ ~fs_used)
    /\ pc \notin {"aborted", "reported"} => ENABLED Next
    /\ pc \in {"walk", "reported"} => Len(results) = n
    /\ \A p \in 1..Len(results) :
        /\ results[p] \in Errors => p \in Range(skipped_file_paths)
        /\ results[p] = "WalkError" => p \in Range(walk_dir_errors)

C8_Witness ==
    /\ pc = "reported" /\ Len(results) = 3
    /\ results[1] = "FileNotCleaned"
    /\ results[2] = "WalkError"
    /\ results[3] = "OkTrue"

\* C9: at the report the cleaned list holds exactly the files clean_file
\* returned Ok(true) for, the skipped list exactly those it returned an error
\* for, files returned Ok(false) are in neither, and the lists are disjoint.
C9_ListsMatchOutcomes ==
    pc = "reported" =>
        /\ Range(cleaned_file_paths) = {p \in 1..Len(results) : results[p] = "OkTrue"}
        /\ Range(skipped_file_paths) = {p \in 1..Len(results) : results[p] \in Errors}
        /\ \A p \in 1..Len(results) :
              results[p] = "OkFalse" =>
                  p \notin Range(cleaned_file_paths) \cup Range(skipped_file_paths)
        /\ Range(cleaned_file_paths) \cap Range(skipped_file_paths) = {}

C9_Witness ==
    /\ pc = "reported"
    /\ Len(cleaned_file_paths) = 1 /\ Len(skipped_file_paths) = 1
    /\ \E p \in 1..Len(results) : results[p] = "OkFalse"

\* the steps of the rewrite: the file is empty after File::create and holds
\* the lines written so far, and a failed read or create leaves it as it was
RewriteSteps ==
    /\ pc = "write" =>
          (touched /\ file_now = Concat(SubSeq(cleaned_lines, 1, k - 1)))
    /\ (ret = "FileNotOpened" \/ (ret = "FileNotCleaned" /\ ~touched)) =>
          file_now = file_before

\* C10 as stated: after a write that failed, the file holds a strict prefix of
\* the cleaned content that is neither the original nor the cleaned content.
C10_PrefixNeverOriginal ==
    /\ RewriteSteps
    /\ (ret = "FileNotCleaned" /\ touched) =>
          /\ StrictPrefix(file_now, Concat(cleaned_lines))
          /\ file_now # file_before
          /\ file_now # Concat(cleaned_lines)

\* C10 amended: after a write that failed, the file holds a strict prefix of
\* the cleaned content, never the whole of it; it is not the original content
\* when the failed write_all had written nothing of its line, and when the
\* file does hold the original content, that content is a strict prefix of
\* the cleaned content.
C10_PrefixAfterFailedWrite ==
    /\ RewriteSteps
    /\ (ret = "FileNotCleaned" /\ touched) =>
          /\ StrictPrefix(file_now, Concat(cleaned_lines))
          /\ file_now # Concat(cleaned_lines)
          /\ partial = 0 => file_now # file_before
          /\ file_now = file_before =>
                (partial > 0 /\ StrictPrefix(file_before, Concat(cleaned_lines)))

C10_Witness ==
    /\ ret = "FileNotCleaned" /\ touched
    /\ k = 2 /\ Len(file_now) > 0

====
